---- MODULE Spec2Model ----
(***************************************************************************)
(* Xetra ETL: the meta-file (ledger) reconciliation of MetaProcess, the    *)
(* report-1 transformation of XetraETL and the S3 connector they use,      *)
(* as a state machine over the target bucket, the source bucket and the    *)
(* fields of each XetraETL job.                                            *)
(***************************************************************************)
EXTENDS Integers, Sequences, FiniteSets, TLC

(* ------------------------------------------------------------------ *)
(* Bounds of the model                                                 *)
(* ------------------------------------------------------------------ *)

\* Calendar days are the ordinals 0..MaxDay; day 0 is 2021-12-30.
MaxDay == 3

\* Rows of the meta file found in the bucket before the first job.
MaxRows == 2

\* Rows of a raw frame handed to transform_report1 on its own.
MaxRaw == 2

Days == 0 .. MaxDay

(* ------------------------------------------------------------------ *)
(* Dates and their string forms                                        *)
(* ------------------------------------------------------------------ *)

\* date.strftime("%Y-%m-%d"): the zero-padded fields year, month, day.
\* The window crosses the 2021/2022 year boundary.
strftime(d) ==
    IF d <= 1 THEN <<2021, 12, 30 + d>> ELSE <<2022, 1, d - 1>>

\* datetime.strptime(s, "%Y-%m-%d").date(), as a day ordinal.
strptime(s) ==
    IF s[1] = 2021 THEN s[3] - 30 ELSE s[3] + 1

\* str >= str on "%Y-%m-%d" strings: lexicographic on the padded fields.
StrGE(a, b) ==
    \/ a[1] > b[1]
    \/ a[1] = b[1] /\ a[2] > b[2]
    \/ a[1] = b[1] /\ a[2] = b[2] /\ a[3] >= b[3]

\* dt.datetime(2200, 1, 1).date().strftime("%Y-%m-%d")
SentinelDate == <<2200, 1, 1>>

\* datetime.today().strftime("%Y-%m-%d %H:%M:%S"): the date fields and the
\* time of day (one clock tick per second).
strftime_ts(day, sec) == strftime(day) \o <<sec>>

(* ------------------------------------------------------------------ *)
(* Names fixed by xetra.common.constants                               *)
(* ------------------------------------------------------------------ *)

META_SOURCE_DATE_COL == "source_date"
META_PROCESS_COL == "process_timestamp"
META_FILE_FORMAT == "csv"
CSV == "csv"
PARQUET == "parquet"

(* ------------------------------------------------------------------ *)
(* Sequence helpers                                                    *)
(* ------------------------------------------------------------------ *)

Range(s) == {s[i] : i \in DOMAIN s}

Min(S) == CHOOSE x \in S : \A y \in S : x <= y

\* All sequences over S of length at most n.
SeqUpTo(S, n) == UNION {[1 .. k -> S] : k \in 0 .. n}

\* [f(x) for x in s]
RECURSIVE Flatten(_)
Flatten(ss) == IF ss = <<>> THEN <<>> ELSE Head(ss) \o Flatten(Tail(ss))

\* collections.Counter(seq): the multiset of the elements.
Counter(s) == [x \in Range(s) |-> Cardinality({i \in DOMAIN s : s[i] = x})]

\* Position of column c in a column list (0 when absent).
ColIndex(cols, c) ==
    IF c \in Range(cols) THEN CHOOSE i \in DOMAIN cols : cols[i] = c /\ \A j \in 1 .. (i - 1) : cols[j] # c
    ELSE 0

(* ------------------------------------------------------------------ *)
(* Data frames and S3 objects                                          *)
(* ------------------------------------------------------------------ *)

\* A data frame: its column names and its rows (one cell per column).
DataFrame(cols, rows) == [columns |-> cols, rows |-> rows]

\* DataFrame.empty
IsEmpty(df) == df.rows = <<>> \/ df.columns = <<>>

\* An object of a bucket: absent, or a body of csv lines (the header line,
\* then one line per row).
NoSuchKey == [exists |-> FALSE, body |-> <<>>]
S3Object(body) == [exists |-> TRUE, body |-> body]

\* df.to_csv(out_buffer, index=False)
to_csv(df) == <<df.columns>> \o df.rows

\* pd.read_csv(data, delimiter=sep)
read_csv(body) == DataFrame(Head(body), Tail(body))

(* ------------------------------------------------------------------ *)
(* S3BucketConnector                                                   *)
(* ------------------------------------------------------------------ *)

\* S3BucketConnector.read_csv_to_df: NoSuchKey when the key is absent,
\* else the csv body parsed into a frame.
read_csv_to_df(obj) ==
    IF obj.exists THEN [err |-> "none", df |-> read_csv(obj.body)]
    ELSE [err |-> "NoSuchKey", df |-> DataFrame(<<>>, <<>>)]

\* Variant of write_df_to_s3: an empty frame is an error.
write_df_to_s3_rejects_empty(df, file_format) ==
    IF IsEmpty(df) THEN [put |-> FALSE, err |-> "EmptyFrame"]
    ELSE IF file_format \in {CSV, PARQUET} THEN [put |-> TRUE, err |-> "none"]
    ELSE [put |-> FALSE, err |-> "WrongFormatException"]

\* Variant of write_df_to_s3: a format that is neither csv nor parquet is
\* skipped without an error.
write_df_to_s3_skips_unknown(df, file_format) ==
    IF IsEmpty(df) THEN [put |-> FALSE, err |-> "none"]
    ELSE IF file_format \in {CSV, PARQUET} THEN [put |-> TRUE, err |-> "none"]
    ELSE [put |-> FALSE, err |-> "none"]

\* S3BucketConnector.write_df_to_s3: what the call does with the frame.
\* An empty frame is not written (and the format is not looked at).
write_df_to_s3(df, file_format) ==
    IF IsEmpty(df) THEN [put |-> FALSE, err |-> "none"]
    ELSE IF file_format = CSV THEN [put |-> TRUE, err |-> "none"]
    ELSE IF file_format = PARQUET THEN [put |-> TRUE, err |-> "none"]
    ELSE [put |-> FALSE, err |-> "WrongFormatException"]

\* S3BucketConnector.list_files_in_prefix over the source bucket: the files
\* (in key order) whose key starts with the prefix.
list_files_in_prefix(bucket, prefix) ==
    SelectSeq(bucket, LAMBDA f : f.key[1] = prefix)

(* ------------------------------------------------------------------ *)
(* MetaProcess                                                         *)
(* ------------------------------------------------------------------ *)

\* The frame of new meta rows: one per extracted date, stamped with now.
df_new(extract_date_list, now) ==
    DataFrame(<<META_SOURCE_DATE_COL, META_PROCESS_COL>>,
              [i \in DOMAIN extract_date_list |-> <<extract_date_list[i], now>>])

\* Variant of concat: the new rows first.
concat_new_first(old, new) ==
    DataFrame(old.columns,
              [i \in DOMAIN new.rows |->
                 [j \in DOMAIN old.columns |->
                    new.rows[i][ColIndex(new.columns, old.columns[j])]]]
              \o old.rows)

\* pd.concat([df_old, df_new]) of frames with the same column multiset:
\* the columns of df_old, the rows of df_old and then those of df_new,
\* aligned by column name.
concat(old, new) ==
    DataFrame(old.columns,
              old.rows \o
              [i \in DOMAIN new.rows |->
                 [j \in DOMAIN old.columns |->
                    new.rows[i][ColIndex(new.columns, old.columns[j])]]])

\* Variant of update_meta_file: a meta file with other columns is treated
\* like a missing one.
update_meta_file_as_absent(obj, extract_date_list, now) ==
    LET new == df_new(extract_date_list, now)
        old == read_csv_to_df(obj)
    IN  IF old.err = "NoSuchKey" \/ Counter(old.df.columns) # Counter(new.columns)
        THEN [err |-> "none", df_all |-> new]
        ELSE [err |-> "none", df_all |-> concat(old.df, new)]

\* MetaProcess.update_meta_file up to the write: the frame to be written,
\* or the error raised.
update_meta_file(obj, extract_date_list, now) ==
    LET new == df_new(extract_date_list, now)
        old == read_csv_to_df(obj)
    IN  IF old.err = "NoSuchKey" THEN [err |-> "none", df_all |-> new]
        ELSE IF Counter(old.df.columns) # Counter(new.columns)
             THEN [err |-> "WrongMetaFileException", df_all |-> new]
        ELSE [err |-> "none", df_all |-> concat(old.df, new)]

\* Variant of DateRange: range(0, (today - start).days), today left out.
DateRange_without_today(start, today) ==
    IF today <= start THEN <<>> ELSE [x \in 1 .. (today - start) |-> start + x - 1]

\* [start + timedelta(days=x) for x in range(0, (today - start).days + 1)]
DateRange(start, today) ==
    IF today < start THEN <<>> ELSE [x \in 1 .. (today - start + 1) |-> start + x - 1]

\* Variant of Rest: the day before arg_date is looked for in the meta file too.
Rest_whole(dates) == dates

\* dates[1:]
Rest(dates) == IF dates = <<>> THEN <<>> ELSE Tail(dates)

\* Variant of boundary: the day before the latest missing date.
boundary_latest(dates_missing) ==
    (CHOOSE x \in dates_missing : \A y \in dates_missing : x >= y) - 1

\* min(set(dates[1:]) - src_dates) - dt.timedelta(days=1)
boundary(dates_missing) == Min(dates_missing) - 1

\* Variant of src_dates: a date recorded more than once does not count.
src_dates_unique(df_meta) ==
    LET c == ColIndex(df_meta.columns, META_SOURCE_DATE_COL)
    IN  {strptime(df_meta.rows[i][c]) : i \in
            {k \in DOMAIN df_meta.rows :
                \A j \in DOMAIN df_meta.rows : df_meta.rows[j][c] = df_meta.rows[k][c] => j = k}}

\* set(pd.to_datetime(df_meta[source_date]).dt.date)
src_dates(df_meta) ==
    LET c == ColIndex(df_meta.columns, META_SOURCE_DATE_COL)
    IN  {strptime(df_meta.rows[i][c]) : i \in DOMAIN df_meta.rows}

\* Variant of return_date_list: with a meta file, only the missing dates and
\* the day before the earliest of them are returned.
return_date_list_gaps_only(obj, arg_date, today) ==
    LET start == strptime(arg_date) - 1
        meta == read_csv_to_df(obj)
        dates == DateRange(start, today)
    IN  IF meta.err = "NoSuchKey"
        THEN [err |-> "none",
              min_date |-> arg_date,
              dates |-> [i \in DOMAIN dates |-> strftime(dates[i])]]
        ELSE IF META_SOURCE_DATE_COL \notin Range(meta.df.columns)
        THEN [err |-> "KeyError", min_date |-> arg_date, dates |-> <<>>]
        ELSE LET dates_missing == Range(Rest(dates)) \ src_dates(meta.df)
             IN  IF dates_missing # {}
                 THEN LET min_date == boundary(dates_missing)
                          kept == SelectSeq(dates, LAMBDA d : d = min_date \/ d \in dates_missing)
                      IN  [err |-> "none",
                           min_date |-> strftime(min_date + 1),
                           dates |-> [i \in DOMAIN kept |-> strftime(kept[i])]]
                 ELSE [err |-> "none", min_date |-> SentinelDate, dates |-> <<>>]

\* MetaProcess.return_date_list: (return_min_date, return_dates), or the
\* KeyError of the column lookup.
return_date_list(obj, arg_date, today) ==
    LET start == strptime(arg_date) - 1
        meta == read_csv_to_df(obj)
        dates == DateRange(start, today)
    IN  IF meta.err = "NoSuchKey"
        THEN [err |-> "none",
              min_date |-> arg_date,
              dates |-> [i \in DOMAIN dates |-> strftime(dates[i])]]
        ELSE IF META_SOURCE_DATE_COL \notin Range(meta.df.columns)
        THEN [err |-> "KeyError", min_date |-> arg_date, dates |-> <<>>]
        ELSE LET dates_missing == Range(Rest(dates)) \ src_dates(meta.df)
             IN  IF dates_missing # {}
                 THEN LET min_date == boundary(dates_missing)
                          kept == SelectSeq(dates, LAMBDA d : d >= min_date)
                      IN  [err |-> "none",
                           min_date |-> strftime(min_date + 1),
                           dates |-> [i \in DOMAIN kept |-> strftime(kept[i])]]
                 ELSE [err |-> "none", min_date |-> SentinelDate, dates |-> <<>>]

\* Variant of meta_update_list: every extracted date is recorded, the day
\* before the cutoff too.
meta_update_list_whole(extract_date, extract_date_list) == extract_date_list

\* Variant of meta_update_list: the cutoff date itself is left out (> for >=).
meta_update_list_after_cutoff(extract_date, extract_date_list) ==
    SelectSeq(extract_date_list, LAMBDA d : StrGE(d, extract_date) /\ d # extract_date)

\* XetraETL.__init__: the dates whose processing is recorded in the meta file.
meta_update_list(extract_date, extract_date_list) ==
    SelectSeq(extract_date_list, LAMBDA d : StrGE(d, extract_date))

(* ------------------------------------------------------------------ *)
(* XetraETL.extract and XetraETL.transform_report1                     *)
(* ------------------------------------------------------------------ *)

\* A raw row of a source file. Prices are in cents, Time in minutes of
\* the day, ISIN an instrument number; nulls names the columns of
\* src_columns that hold no value in the row.
RawRow(isin, date, time, start, lo, hi, vol, nulls) ==
    [ISIN |-> isin, Date |-> date, Time |-> time, StartPrice |-> start,
     MinPrice |-> lo, MaxPrice |-> hi, TradedVolume |-> vol, nulls |-> nulls]

\* XetraETL.extract: the rows of every file listed under each date of
\* extract_date_list, in list order (an empty frame when no file is listed).
extract(bucket, extract_date_list) ==
    LET files == Flatten([i \in DOMAIN extract_date_list |->
                            list_files_in_prefix(bucket, extract_date_list[i])])
    IN  Flatten([i \in DOMAIN files |-> files[i].rows])

\* str < str on "%Y-%m-%d" strings.
StrLT(a, b) == ~StrGE(a, b)

\* DataFrame.sort_values(by=[Time]): the rows in Time order, rows of the same
\* Time keeping their order. InsertByTime puts a row into sorted rows.
RECURSIVE InsertByTime(_, _)
InsertByTime(x, s) ==
    IF s = <<>> THEN <<x>>
    ELSE IF x.Time < Head(s).Time THEN <<x>> \o s
    ELSE <<Head(s)>> \o InsertByTime(x, Tail(s))

\* Variant of SortByTime: the rows are left in the order of the frame.
SortByTime_as_extracted(rows) == rows

RECURSIVE SortByTime(_)
SortByTime(rows) ==
    IF rows = <<>> THEN <<>>
    ELSE InsertByTime(rows[Len(rows)], SortByTime(SubSeq(rows, 1, Len(rows) - 1)))

\* DataFrame.sort_values(by=[Date]): the same, in the order of the Date strings.
RECURSIVE InsertByDate(_, _)
InsertByDate(x, s) ==
    IF s = <<>> THEN <<x>>
    ELSE IF StrLT(x.Date, Head(s).Date) THEN <<x>> \o s
    ELSE <<Head(s)>> \o InsertByDate(x, Tail(s))

RECURSIVE SortByDate(_)
SortByDate(rows) ==
    IF rows = <<>> THEN <<>>
    ELSE InsertByDate(rows[Len(rows)], SortByDate(SubSeq(rows, 1, Len(rows) - 1)))

\* numpy's round of n / d (d > 0) to an integer, halves to the even one.
RoundDiv(n, d) ==
    LET q == n \div d
        r == n % d
    IN  IF 2 * r < d THEN q
        ELSE IF 2 * r > d THEN q + 1
        ELSE IF q % 2 = 0 THEN q ELSE q + 1

\* (opening - prev) / prev * 100 rounded to 2 decimals, in hundredths of a
\* percent; NaN without a previous row, inf or NaN on a previous price of 0.
pct_change(opening, prev) ==
    IF prev.k = "nan" THEN [k |-> "nan", v |-> 0]
    ELSE IF prev.v = 0
         THEN (IF opening = 0 THEN [k |-> "nan", v |-> 0] ELSE [k |-> "inf", v |-> 0])
    ELSE [k |-> "num", v |-> RoundDiv((opening - prev.v) * 10000, prev.v)]

\* Lines 121-133: the rows without missing values, each with the StartPrice of
\* the first and of the last row (by Time) of its (ISIN, Date) group.
with_open_close(df) ==
    LET clean == SelectSeq(df, LAMBDA r : r.nulls = {})
        by_time == SortByTime(clean)
        group(r) == SelectSeq(by_time, LAMBDA x : x.ISIN = r.ISIN /\ x.Date = r.Date)
    IN  [i \in DOMAIN clean |->
           [row |-> clean[i],
            opening_price |-> group(clean[i])[1].StartPrice,
            closing_price |-> group(clean[i])[Len(group(clean[i]))].StartPrice]]

Max(S) == CHOOSE x \in S : \A y \in S : x >= y

\* Variant of Sum: the first value of the group ("first" for "sum").
Sum_first(s) == IF s = <<>> THEN 0 ELSE Head(s)

RECURSIVE Sum(_)
Sum(s) == IF s = <<>> THEN 0 ELSE Head(s) + Sum(Tail(s))

\* Lines 141-148: groupby([ISIN, Date], as_index=False).agg(...), one row
\* per group, the groups in key order.
aggregate(rows) ==
    LET keys == {<<rows[i].row.ISIN, rows[i].row.Date>> : i \in DOMAIN rows}
        before(a, b) == a[1] < b[1] \/ (a[1] = b[1] /\ StrLT(a[2], b[2]))
        keyseq == [p \in 1 .. Cardinality(keys) |->
                     CHOOSE k \in keys : Cardinality({x \in keys : before(x, k)}) = p - 1]
        group(k) == SelectSeq(rows, LAMBDA x : x.row.ISIN = k[1] /\ x.row.Date = k[2])
    IN  [g \in DOMAIN keyseq |->
           LET grp == group(keyseq[g])
           IN  [ISIN |-> keyseq[g][1],
                Date |-> keyseq[g][2],
                opening_price |-> Min({grp[i].opening_price : i \in DOMAIN grp}),
                closing_price |-> Min({grp[i].closing_price : i \in DOMAIN grp}),
                minimum_price |-> Min({grp[i].row.MinPrice : i \in DOMAIN grp}),
                maximum_price |-> Max({grp[i].row.MaxPrice : i \in DOMAIN grp}),
                daily_traded_volume |-> Sum([i \in DOMAIN grp |-> grp[i].row.TradedVolume])]]

\* Variant of shifted: shift(1) without the groupby, the row before this one
\* in Date order whatever its ISIN.
shifted_any_isin(by_date, row) ==
    LET pos == CHOOSE p \in DOMAIN by_date : by_date[p] = row
    IN  IF pos = 1 THEN [k |-> "nan", v |-> 0]
        ELSE [k |-> "num", v |-> by_date[pos - 1].opening_price]

\* Lines 150-152: sort_values(by=[Date]).groupby([ISIN])[opening_price].shift(1),
\* the opening price of the row before this one among the rows of its ISIN
\* in Date order (NaN for the first).
shifted(by_date, row) ==
    LET same == SelectSeq(by_date, LAMBDA x : x.ISIN = row.ISIN)
        pos == CHOOSE p \in DOMAIN same : same[p] = row
    IN  IF pos = 1 THEN [k |-> "nan", v |-> 0]
        ELSE [k |-> "num", v |-> same[pos - 1].opening_price]

\* Lines 153-158: the percent change column, rounded.
with_change(agg) ==
    LET by_date == SortByDate(agg)
    IN
    [i \in DOMAIN agg |->
       [ISIN |-> agg[i].ISIN,
        Date |-> agg[i].Date,
        opening_price |-> agg[i].opening_price,
        closing_price |-> agg[i].closing_price,
        minimum_price |-> agg[i].minimum_price,
        maximum_price |-> agg[i].maximum_price,
        daily_traded_volume |-> agg[i].daily_traded_volume,
        change_prev_closing |-> pct_change(agg[i].opening_price, shifted(by_date, agg[i]))]]

\* Variant of cutoff_filter: nothing is removed.
cutoff_filter_none(rows, extract_date) == rows

\* Line 160: df[df.Date >= self.extract_date]
cutoff_filter(rows, extract_date) ==
    SelectSeq(rows, LAMBDA r : StrGE(r.Date, extract_date))

\* XetraETL.transform_report1
transform_report1(df, extract_date) ==
    IF df = <<>> THEN df
    ELSE cutoff_filter(with_change(aggregate(with_open_close(df))), extract_date)

(* ------------------------------------------------------------------ *)
(* State                                                               *)
(* ------------------------------------------------------------------ *)

\* The XetraETL jobs: job 1 is a run, job 2 the run after it.
Jobs == {1, 2}

VARIABLES
    meta,        \* target bucket: the object under meta_key
    reports,     \* target bucket: the report objects, by key
    puts,        \* every put_object on the target bucket so far: <<job, key>>
    src,         \* source bucket: which bucket s3_bucket_src is connected to
    today,       \* the calendar day of datetime.today()
    clock,       \* the time of day of datetime.today()
    arg_date,    \* src_args.src_first_extract_date
    tgt_format,  \* tgt_args.tgt_format
    job          \* per job: where it stands, the fields of the XetraETL object,
                 \* the frame df of etl_report1 and the frame extract returned (raw)

vars == <<meta, reports, puts, src, today, clock, arg_date, tgt_format, job>>

\* Columns of the report frame.
ReportColumns ==
    <<"ISIN", "Date", "opening_price", "closing_price", "minimum_price",
      "maximum_price", "daily_traded_volume", "change_prev_closing">>

\* A job that has not been constructed yet.
NewJob ==
    [pc |-> "idle", err |-> "none", today |-> 0,
     extract_date |-> SentinelDate, extract_date_list |-> <<>>,
     meta_update_list |-> <<>>, raw |-> <<>>, df |-> <<>>,
     df_all |-> DataFrame(<<>>, <<>>), target_key |-> <<>>]

InFlight(r) == job[r].pc \notin {"idle", "done", "failed"}

(* ------------------------------------------------------------------ *)
(* What the buckets hold before the first job                          *)
(* ------------------------------------------------------------------ *)

\* Column lists of a meta file found in the bucket: the expected one, the
\* expected one in the other order, and malformed ones.
MetaLayouts ==
    { <<META_SOURCE_DATE_COL, META_PROCESS_COL>>,
      <<META_PROCESS_COL, META_SOURCE_DATE_COL>>,
      <<"wrong_column", META_PROCESS_COL>>,
      <<META_SOURCE_DATE_COL, "renamed">>,
      <<META_SOURCE_DATE_COL, META_PROCESS_COL, "extra">> }

\* The cell of column c in a row recorded for day d (processed on day 0).
MetaCell(c, d) ==
    IF c \in {META_SOURCE_DATE_COL, "wrong_column"} THEN strftime(d)
    ELSE IF c = "extra" THEN <<0>>
    ELSE strftime_ts(0, 0)

InitialMeta ==
    {NoSuchKey} \cup
    { S3Object(to_csv(DataFrame(cols,
          [i \in DOMAIN ds |-> [j \in DOMAIN cols |-> MetaCell(cols[j], ds[i])]])))
      : cols \in MetaLayouts, ds \in SeqUpTo(Days, MaxRows) }

\* A source file: its key (the date prefix and a name) and its rows.
SrcFile(d, name, rows) == [key |-> <<strftime(d), name>>, rows |-> rows]

\* One instrument, one row a day.
DailyBucket ==
    [i \in 1 .. (MaxDay + 1) |->
       SrcFile(i - 1, 1, <<RawRow(1, strftime(i - 1), 420, 2000 + 100 * i, 1900, 2100 + 100 * i, 10 * i, {})>>)]

\* One instrument, no file on the even days.
SparseBucket == SelectSeq(DailyBucket, LAMBDA f : strptime(f.key[1]) % 2 = 1)

\* Two instruments; the rows of a day arrive out of time order, one of
\* them without a StartPrice.
MixedBucket ==
    [i \in 1 .. (MaxDay + 1) |->
       SrcFile(i - 1, 1,
         <<RawRow(1, strftime(i - 1), 480, 1500 + i, 1400, 1600, 5, {}),
           RawRow(1, strftime(i - 1), 420, 1000 * i, 900, 1000 * i, 7, {}),
           RawRow(2, strftime(i - 1), 540, 0, 0, 0, 2, {"StartPrice"}),
           RawRow(2, strftime(i - 1), 420, 300, 300, 300, 1, {})>>)]

\* Files whose only row carries the date of the day before the key's.
StaleBucket ==
    [i \in 1 .. MaxDay |->
       SrcFile(i, 1, <<RawRow(1, strftime(i - 1), 420, 500 * i, 400, 600 * i, 3, {})>>)]

\* The source buckets a job may be connected to, by name; the files of a
\* bucket in key order. The source bucket is never written.
InitialSrc == {"empty", "daily", "sparse", "mixed", "stale"}

Objects(bucket) ==
    CASE bucket = "daily" -> DailyBucket
      [] bucket = "sparse" -> SparseBucket
      [] bucket = "mixed" -> MixedBucket
      [] bucket = "stale" -> StaleBucket
      [] OTHER -> <<>>

Init ==
    /\ meta \in InitialMeta
    /\ reports = {}
    /\ puts = {}
    /\ src \in InitialSrc
    /\ today = MaxDay - 1
    /\ clock = 1
    /\ arg_date \in {strftime(d) : d \in 1 .. MaxDay}
    /\ tgt_format \in {PARQUET, "xlsx"}
    /\ job = [r \in Jobs |-> NewJob]

(* ------------------------------------------------------------------ *)
(* Operations                                                          *)
(* ------------------------------------------------------------------ *)

\* XetraETL.__init__: reconcile against the meta file.
Construct(r) ==
    /\ job[r].pc = "idle"
    /\ LET res == return_date_list(meta, arg_date, today)
       IN  job' = [job EXCEPT ![r] =
                     IF res.err # "none"
                     THEN [@ EXCEPT !.pc = "failed", !.err = res.err, !.today = today]
                     ELSE [@ EXCEPT !.pc = "constructed",
                                    !.today = today,
                                    !.extract_date = res.min_date,
                                    !.extract_date_list = res.dates,
                                    !.meta_update_list = meta_update_list(res.min_date, res.dates)]]
    /\ clock' = clock + 1
    /\ UNCHANGED <<meta, reports, puts, src, today, arg_date, tgt_format>>

\* XetraETL.extract
Extract(r) ==
    /\ job[r].pc = "constructed"
    /\ LET df == extract(Objects(src), job[r].extract_date_list)
       IN  job' = [job EXCEPT ![r].pc = "extracted", ![r].raw = df, ![r].df = df]
    /\ UNCHANGED <<meta, reports, puts, src, today, clock, arg_date, tgt_format>>

\* XetraETL.transform_report1
Transform(r) ==
    /\ job[r].pc = "extracted"
    /\ job' = [job EXCEPT ![r].pc = "transformed",
                          ![r].df = transform_report1(job[r].df, job[r].extract_date)]
    /\ UNCHANGED <<meta, reports, puts, src, today, clock, arg_date, tgt_format>>

\* XetraETL.load, first half: the report is written under a key made of
\* the time of the write.
LoadReport(r) ==
    /\ job[r].pc = "transformed"
    /\ LET key == <<"report", strftime_ts(today, clock), tgt_format>>
           w == write_df_to_s3(DataFrame(ReportColumns, job[r].df), tgt_format)
       IN  /\ job' = [job EXCEPT ![r].pc = IF w.err = "none" THEN "report_written" ELSE "failed",
                                 ![r].err = w.err,
                                 ![r].target_key = key]
           /\ reports' = IF w.put
                         THEN {o \in reports : o.key # key} \cup {[key |-> key, body |-> job[r].df]}
                         ELSE reports
           /\ puts' = IF w.put THEN puts \cup {<<r, key>>} ELSE puts
    /\ UNCHANGED <<meta, src, today, clock, arg_date, tgt_format>>

\* MetaProcess.update_meta_file, up to the frame to write: the new rows, the
\* read of the meta file, the column check and the concatenation.
UpdateMetaRead(r) ==
    /\ job[r].pc = "report_written"
    /\ LET res == update_meta_file(meta, job[r].meta_update_list, strftime_ts(today, clock))
       IN  job' = [job EXCEPT ![r].pc = IF res.err = "none" THEN "meta_read" ELSE "failed",
                              ![r].err = res.err,
                              ![r].df_all = res.df_all]
    /\ UNCHANGED <<meta, reports, puts, src, today, clock, arg_date, tgt_format>>

\* Variant of UpdateMetaWrite: the write is refused when the stored meta file
\* no longer has the length of the one the frame was built from.
UpdateMetaWrite_if_unchanged(r) ==
    /\ job[r].pc = "meta_read"
    /\ LET w == write_df_to_s3(job[r].df_all, META_FILE_FORMAT)
           seen == Len(job[r].df_all.rows) - Len(job[r].meta_update_list)
           same == Len(meta.body) = (IF meta.exists THEN seen + 1 ELSE 0)
       IN  /\ job' = [job EXCEPT ![r].pc = IF w.err = "none" /\ same THEN "done" ELSE "failed",
                                 ![r].err = IF same THEN w.err ELSE "Conflict"]
           /\ meta' = IF w.put /\ same THEN S3Object(to_csv(job[r].df_all)) ELSE meta
           /\ puts' = IF w.put /\ same THEN puts \cup {<<r, <<"meta">>>>} ELSE puts
    /\ UNCHANGED <<reports, src, today, clock, arg_date, tgt_format>>

\* MetaProcess.update_meta_file, the write of the frame, and the return of
\* load and etl_report1.
UpdateMetaWrite(r) ==
    /\ job[r].pc = "meta_read"
    /\ LET w == write_df_to_s3(job[r].df_all, META_FILE_FORMAT)
       IN  /\ job' = [job EXCEPT ![r].pc = IF w.err = "none" THEN "done" ELSE "failed",
                                 ![r].err = w.err]
           /\ meta' = IF w.put THEN S3Object(to_csv(job[r].df_all)) ELSE meta
           /\ puts' = IF w.put THEN puts \cup {<<r, <<"meta">>>>} ELSE puts
    /\ UNCHANGED <<reports, src, today, clock, arg_date, tgt_format>>

\* Midnight passes between two jobs.
NextDay ==
    /\ today < MaxDay
    /\ \A r \in Jobs : ~InFlight(r)
    /\ \E r \in Jobs : job[r].pc # "idle"
    /\ today' = today + 1
    /\ UNCHANGED <<meta, reports, puts, src, clock, arg_date, tgt_format, job>>

\* The jobs run one after the other, in their order: a job is constructed
\* when no other job is under way and the jobs before it have been started.
Scheduled(r) ==
    /\ \A q \in Jobs \ {r} : ~InFlight(q)
    /\ \A q \in Jobs : q < r => job[q].pc # "idle"

Start(r) == Scheduled(r) /\ Construct(r)

Next ==
    \/ \E r \in Jobs : Start(r)
    \/ \E r \in Jobs : Extract(r)
    \/ \E r \in Jobs : Transform(r)
    \/ \E r \in Jobs : LoadReport(r)
    \/ \E r \in Jobs : UpdateMetaRead(r)
    \/ \E r \in Jobs : UpdateMetaWrite(r)
    \/ NextDay

Spec == Init /\ [][Next]_vars

(* ------------------------------------------------------------------ *)
(* Two jobs at the same time                                           *)
(* ------------------------------------------------------------------ *)

\* Two jobs started on the same day against the same target bucket, neither
\* waiting for the other: their steps interleave in any order.
NextC ==
    \/ \E r \in Jobs : Construct(r)
    \/ \E r \in Jobs : Extract(r)
    \/ \E r \in Jobs : Transform(r)
    \/ \E r \in Jobs : LoadReport(r)
    \/ \E r \in Jobs : UpdateMetaRead(r)
    \/ \E r \in Jobs : UpdateMetaWrite(r)

\* Before the two jobs: no meta file or a well-formed one, a source bucket
\* without files or with one file a day, a supported report format.
InitC ==
    /\ meta \in {o \in InitialMeta :
                    o.exists => Head(o.body) = <<META_SOURCE_DATE_COL, META_PROCESS_COL>>}
    /\ reports = {}
    /\ puts = {}
    /\ src \in {"empty", "daily"}
    /\ today = MaxDay - 1
    /\ clock = 1
    /\ arg_date \in {strftime(d) : d \in 1 .. MaxDay}
    /\ tgt_format = PARQUET
    /\ job = [r \in Jobs |-> NewJob]

SpecC == InitC /\ [][NextC]_vars

(* ------------------------------------------------------------------ *)
(* transform_report1 on its own                                        *)
(* ------------------------------------------------------------------ *)

\* The raw rows a frame is drawn from: two instruments, every day of the
\* window, an early row, a late row and a row without a StartPrice; for the
\* first instrument also a row of the early row's Time with another StartPrice.
RawRows ==
    {RawRow(i, strftime(d), 420, 1000 + 50 * d, 950, 1100 + 50 * d, 10, {}) : i \in {1, 2}, d \in Days}
    \cup {RawRow(i, strftime(d), 480, 1200 - 100 * i, 900, 1300, 5, {}) : i \in {1, 2}, d \in Days}
    \cup {RawRow(i, strftime(d), 420, 0, 0, 0, 1, {"StartPrice"}) : i \in {1, 2}, d \in Days}
    \cup {RawRow(1, strftime(d), 420, 1500, 1400, 1600, 3, {}) : d \in Days}

\* A job whose extract has returned any frame of up to MaxRaw rows, with any
\* cutoff: a date of the window or the sentinel.
InitT ==
    /\ meta = NoSuchKey
    /\ reports = {}
    /\ puts = {}
    /\ src = "empty"
    /\ today = MaxDay
    /\ clock = 1
    /\ arg_date = strftime(1)
    /\ tgt_format = PARQUET
    /\ \E df \in SeqUpTo(RawRows, MaxRaw), cutoff \in {strftime(d) : d \in Days} \cup {SentinelDate} :
          job = [r \in Jobs |->
                   IF r = 1
                   THEN [NewJob EXCEPT !.pc = "extracted", !.today = MaxDay,
                                       !.extract_date = cutoff, !.raw = df, !.df = df]
                   ELSE NewJob]

NextT == Transform(1)

SpecT == InitT /\ [][NextT]_vars

(* ------------------------------------------------------------------ *)
(* Properties of the reconciliation (MetaProcess.return_date_list)     *)
(* ------------------------------------------------------------------ *)

\* While a job stands right after its constructor, the meta file is the one
\* its reconciliation read: jobs run one after the other and only the last
\* step of a job writes it.
Reconciled(r) == job[r].pc = "constructed"

\* The header line of the stored meta file.
MetaHeader == Head(meta.body)

\* The header holds the two expected columns and nothing else.
ExpectedHeader ==
    /\ Len(MetaHeader) = 2
    /\ Range(MetaHeader) = {META_SOURCE_DATE_COL, META_PROCESS_COL}

\* The calendar days recorded as processed in the stored meta file.
LedgerDays ==
    {d \in Days : \E i \in 2 .. Len(meta.body) :
        \E j \in DOMAIN MetaHeader :
            MetaHeader[j] = META_SOURCE_DATE_COL /\ meta.body[i][j] = strftime(d)}

\* The days of [requested start date, today] that the meta file lacks.
MissingDays(r) == {d \in strptime(arg_date) .. job[r].today : d \notin LedgerDays}

\* Every calendar date from day a through day b, as strings.
DatesFromTo(a, b) == [i \in 1 .. (b - a + 1) |-> strftime(a + i - 1)]

\* C1: after a job has run to its end against a well-formed or absent meta
\* file with the requested start date not after today, the reconciliation of
\* the job that follows on the same day finds nothing to do: an empty date
\* list and the sentinel cutoff, whatever the meta file held before.
C1_RerunFindsNothing ==
    ( /\ job[1].pc = "done"
      /\ job[2].pc # "idle"
      /\ job[2].today = job[1].today
      /\ strptime(arg_date) <= job[1].today )
    => /\ job[2].pc # "failed"
       /\ job[2].extract_date_list = <<>>
       /\ job[2].extract_date = SentinelDate

\* C1 witness: the first job appended dates to the meta file and the second
\* job has reconciled on the same day.
C1_Witness ==
    /\ job[1].pc = "done"
    /\ job[1].meta_update_list # <<>>
    /\ <<1, <<"meta">>>> \in puts
    /\ job[2].pc = "constructed"
    /\ job[2].today = job[1].today
    /\ strptime(arg_date) <= job[1].today

\* C2: with an existing meta file that lacks a date of [requested start
\* date, today], the cutoff is the earliest missing date and the date list is
\* every date from the day before it through today, dates that the meta
\* file already holds included.
C2_GapForward ==
    \A r \in Jobs :
        (Reconciled(r) /\ meta.exists /\ MissingDays(r) # {}) =>
            \E m \in MissingDays(r) :
                /\ \A d \in MissingDays(r) : m <= d
                /\ job[r].extract_date = strftime(m)
                /\ job[r].extract_date_list = DatesFromTo(m - 1, job[r].today)

\* C2 witness: a reconciliation whose earliest gap is followed by a date the
\* meta file already holds, which is in the date list again.
C2_Witness ==
    \E r \in Jobs :
        /\ Reconciled(r) /\ meta.exists
        /\ \E m \in MissingDays(r) : \E d \in LedgerDays :
              /\ \A x \in MissingDays(r) : m <= x
              /\ m < d /\ d <= job[r].today
              /\ strftime(d) \in Range(job[r].extract_date_list)

\* C3: with no meta file the date list is every date from the day before
\* the requested start date through today and the cutoff is the requested
\* start date; the missing file is not an error of the job.
C3_ColdStart ==
    \A r \in Jobs :
        /\ (Reconciled(r) /\ ~meta.exists) =>
              /\ job[r].extract_date = arg_date
              /\ job[r].extract_date_list = DatesFromTo(strptime(arg_date) - 1, job[r].today)
        /\ (job[r].pc = "failed" /\ job[r].err = "KeyError") => meta.exists

\* C3 witness: a cold start that has to fetch at least three days.
C3_Witness ==
    \E r \in Jobs :
        /\ Reconciled(r) /\ ~meta.exists
        /\ Len(job[r].extract_date_list) >= 3

\* C4: with a meta file that holds every date of [requested start date,
\* today], the date list is empty and the cutoff is 2200-01-01.
C4_NothingToDo ==
    \A r \in Jobs :
        (Reconciled(r) /\ meta.exists /\ MissingDays(r) = {}) =>
            /\ job[r].extract_date_list = <<>>
            /\ job[r].extract_date = SentinelDate

\* C4 witness: the first job finds every date of a range of two days in the
\* meta file, which does not hold the day before the range.
C4_Witness ==
    /\ Reconciled(1) /\ meta.exists
    /\ MissingDays(1) = {}
    /\ strptime(arg_date) < job[1].today
    /\ strptime(arg_date) - 1 \notin LedgerDays

(* ------------------------------------------------------------------ *)
(* Properties of the meta file update (MetaProcess.update_meta_file)   *)
(* ------------------------------------------------------------------ *)

\* The stored meta file as lines; a missing file counts as the header of
\* the two columns with no row under it.
LedgerLines ==
    IF meta.exists THEN meta.body ELSE << <<META_SOURCE_DATE_COL, META_PROCESS_COL>> >>

\* C5: the meta file is append-only under update_meta_file: with a well-formed
\* or absent meta file and a non-empty date list, the file after the call is
\* the old lines, unchanged and in their order, followed by one new row per
\* date of the list in list order, each stamped with the time of the call.
C5_AppendOnly ==
    [][\A r \in Jobs :
         (job[r].pc = "meta_read" /\ job'[r].pc = "done" /\ job[r].meta_update_list # <<>>) =>
            LET D == job[r].meta_update_list
                now == strftime_ts(today, clock)
                old == LedgerLines
                new == meta'.body
                hdr == Head(new)
            IN  /\ meta'.exists
                /\ Len(new) = Len(old) + Len(D)
                /\ SubSeq(new, 1, Len(old)) = old
                /\ \A i \in DOMAIN D :
                      /\ Len(new[Len(old) + i]) = 2
                      /\ \A j \in DOMAIN hdr :
                            /\ hdr[j] = META_SOURCE_DATE_COL => new[Len(old) + i][j] = D[i]
                            /\ hdr[j] = META_PROCESS_COL => new[Len(old) + i][j] = now
      ]_vars

\* C5 witness: a job has appended two or more dates under rows that were in
\* the meta file before, stamped earlier.
C5_Witness ==
    \E r \in Jobs :
        /\ job[r].pc = "done"
        /\ Len(job[r].meta_update_list) >= 2
        /\ Len(meta.body) > 1 + Len(job[r].meta_update_list)
        /\ \E i \in 2 .. Len(meta.body) : strftime_ts(0, 0) \in Range(meta.body[i])
        /\ <<r, <<"meta">>>> \in puts

\* C6: update_meta_file called with an empty date list writes nothing to the
\* bucket and returns success, whatever the stored meta file is (absent,
\* well-formed, or with other columns).
C6_EmptyListNoWrite ==
    \A r \in Jobs :
        job[r].meta_update_list = <<>> =>
            /\ job[r].err # "WrongMetaFileException"
            /\ <<r, <<"meta">>>> \notin puts

\* C7: update_meta_file with a non-empty date list and a stored meta file
\* whose columns are not exactly the two expected ones raises
\* WrongMetaFileException and writes nothing: the file stays as it is and the
\* malformed file is not handled like a missing one.
C7_WrongMetaFileRejected ==
    [][\A r \in Jobs :
         ( /\ job[r].pc = "report_written"
           /\ job'[r] # job[r]
           /\ job[r].meta_update_list # <<>>
           /\ meta.exists
           /\ ~ExpectedHeader ) =>
            /\ job'[r].pc = "failed"
            /\ job'[r].err = "WrongMetaFileException"
            /\ meta' = meta
            /\ puts' = puts
      ]_vars

\* C7 witness: a job with dates to record has failed on a meta file with
\* other columns, which is still in the bucket.
C7_Witness ==
    \E r \in Jobs :
        /\ job[r].pc = "failed"
        /\ job[r].err = "WrongMetaFileException"
        /\ job[r].meta_update_list # <<>>
        /\ meta.exists /\ ~ExpectedHeader
        /\ <<r, <<"meta">>>> \notin puts

\* C8: reconciliation validates the schema of the meta file: when the file
\* exists and its columns are not exactly the two expected ones (a column
\* missing, renamed or added), it fails and returns no result.
C8_ReconcileValidatesSchema ==
    \A r \in Jobs :
        (Reconciled(r) /\ meta.exists) => ExpectedHeader

\* C9: a job that ends in the schema mismatch error has written nothing to
\* the target bucket, neither a report nor a meta file.
C9_NoPartialWrites ==
    \A r \in Jobs :
        (job[r].pc = "failed" /\ job[r].err \in {"WrongMetaFileException", "KeyError"}) =>
            \A w \in puts : w[1] # r

(* ------------------------------------------------------------------ *)
(* Properties of the transformation (XetraETL.transform_report1)       *)
(* ------------------------------------------------------------------ *)

\* C10: the report never holds a row dated before the cutoff, whatever the
\* raw rows and the cutoff; with the sentinel cutoff it is empty.
C10_NothingBeforeCutoff ==
    \A r \in Jobs :
        job[r].pc = "transformed" =>
            IF job[r].extract_date = SentinelDate
            THEN job[r].df = <<>>
            ELSE \A i \in DOMAIN job[r].df :
                    strptime(job[r].df[i].Date) >= strptime(job[r].extract_date)

\* C10 witness: the raw frame held a complete row dated before the cutoff
\* and one on or after it; only the latter is in the report.
C10_Witness ==
    /\ job[1].pc = "transformed"
    /\ job[1].extract_date # SentinelDate
    /\ \E i \in DOMAIN job[1].raw :
          /\ job[1].raw[i].nulls = {}
          /\ strptime(job[1].raw[i].Date) < strptime(job[1].extract_date)
    /\ job[1].df # <<>>

\* The raw rows of job r's extracted frame that carry the instrument and the
\* date, in the order of the frame; those of them without a missing value.
GroupRows(r, isin, date) ==
    SelectSeq(job[r].raw, LAMBDA x : x.ISIN = isin /\ x.Date = date)

CleanGroupRows(r, isin, date) ==
    SelectSeq(GroupRows(r, isin, date), LAMBDA x : x.nulls = {})

RECURSIVE TotalVolume(_)
TotalVolume(rows) ==
    IF rows = <<>> THEN 0 ELSE Head(rows).TradedVolume + TotalVolume(Tail(rows))

\* C11 (as amended): the daily volume of every report row is the sum of the
\* traded volume of the raw rows of its instrument and date that have no
\* missing value in a required column; the rows dropped by the cleaning
\* step do not count.
C11_VolumeIsSumOfCleanRows ==
    \A r \in Jobs :
        job[r].pc = "transformed" =>
            \A i \in DOMAIN job[r].df :
                job[r].df[i].daily_traded_volume =
                    TotalVolume(CleanGroupRows(r, job[r].df[i].ISIN, job[r].df[i].Date))

\* C11 as stated: the daily volume of every report row is the sum of the
\* traded volume of all raw rows of its instrument and date.
C11_VolumeIsSumOfAllRows ==
    \A r \in Jobs :
        job[r].pc = "transformed" =>
            \A i \in DOMAIN job[r].df :
                job[r].df[i].daily_traded_volume =
                    TotalVolume(GroupRows(r, job[r].df[i].ISIN, job[r].df[i].Date))

\* C11 witness: a report row made of two complete raw rows with different
\* volumes.
C11_Witness ==
    /\ job[1].pc = "transformed"
    /\ \E i \in DOMAIN job[1].df :
          LET g == CleanGroupRows(1, job[1].df[i].ISIN, job[1].df[i].Date)
          IN  /\ Len(g) = 2
              /\ g[1].TradedVolume # g[2].TradedVolume
              /\ job[1].df[i].daily_traded_volume = g[1].TradedVolume + g[2].TradedVolume

\* The rows of a group that carry its earliest and its latest Time, in the
\* order of the frame.
EarliestRows(g) == SelectSeq(g, LAMBDA x : \A i \in DOMAIN g : x.Time <= g[i].Time)

LatestRows(g) == SelectSeq(g, LAMBDA x : \A i \in DOMAIN g : x.Time >= g[i].Time)

\* The rows of an extreme Time of the group agree on the StartPrice.
SamePrice(rows) == \A i, j \in DOMAIN rows : rows[i].StartPrice = rows[j].StartPrice

\* The frames that hold the rows of job r's extracted frame with two
\* neighbouring rows exchanged; every other order is a chain of them.
Reorderings(r) ==
    LET n == Len(job[r].raw)
    IN  {[i \in 1 .. n |->
            IF i = k THEN job[r].raw[k + 1]
            ELSE IF i = k + 1 THEN job[r].raw[k]
            ELSE job[r].raw[i]] : k \in 1 .. (n - 1)}

\* Instrument, date, opening and closing price of the rows of a report.
OpenClose(df) ==
    {<<df[i].ISIN, df[i].Date, df[i].opening_price, df[i].closing_price>> : i \in DOMAIN df}

\* C12 (as amended): the opening price of every report row is the StartPrice
\* of a complete row of its group that carries the group's earliest Time,
\* its closing price that of a row that carries the latest Time (the
\* reduction by min changes neither); the two do not depend on the order of
\* extraction as long as the rows of the earliest Time, and those of the
\* latest, agree on the StartPrice. Among rows of the same extreme Time
\* with different prices the order of extraction decides.
C12_OpenCloseByTime ==
    \A r \in Jobs :
        job[r].pc = "transformed" =>
            /\ \A i \in DOMAIN job[r].df :
                  LET g == CleanGroupRows(r, job[r].df[i].ISIN, job[r].df[i].Date)
                  IN  /\ \E k \in DOMAIN EarliestRows(g) :
                            job[r].df[i].opening_price = EarliestRows(g)[k].StartPrice
                      /\ \E k \in DOMAIN LatestRows(g) :
                            job[r].df[i].closing_price = LatestRows(g)[k].StartPrice
            /\ (\A x \in Range(job[r].raw) :
                   LET g == CleanGroupRows(r, x.ISIN, x.Date)
                   IN  x.nulls = {} => SamePrice(EarliestRows(g)) /\ SamePrice(LatestRows(g)))
               => \A other \in Reorderings(r) :
                     OpenClose(transform_report1(other, job[r].extract_date)) = OpenClose(job[r].df)

\* C12 as stated: the opening price is the StartPrice of the row of the
\* earliest Time, the closing price that of the row of the latest Time,
\* whatever the order of extraction.
C12_OpenCloseOrderFree ==
    \A r \in Jobs :
        job[r].pc = "transformed" =>
            /\ \A i \in DOMAIN job[r].df :
                  LET g == CleanGroupRows(r, job[r].df[i].ISIN, job[r].df[i].Date)
                  IN  /\ \A k \in DOMAIN EarliestRows(g) :
                            job[r].df[i].opening_price = EarliestRows(g)[k].StartPrice
                      /\ \A k \in DOMAIN LatestRows(g) :
                            job[r].df[i].closing_price = LatestRows(g)[k].StartPrice
            /\ \A other \in Reorderings(r) :
                  OpenClose(transform_report1(other, job[r].extract_date)) = OpenClose(job[r].df)

\* C12 witness: a report row whose group was extracted with the later row
\* first; it opens at the StartPrice of the second extracted row and closes
\* at that of the first, which differ.
C12_Witness ==
    /\ job[1].pc = "transformed"
    /\ \E i \in DOMAIN job[1].df :
          LET g == CleanGroupRows(1, job[1].df[i].ISIN, job[1].df[i].Date)
          IN  /\ Len(g) = 2
              /\ g[1].Time > g[2].Time
              /\ g[1].StartPrice # g[2].StartPrice
              /\ job[1].df[i].opening_price = g[2].StartPrice
              /\ job[1].df[i].closing_price = g[1].StartPrice

\* The days on which job r's extracted frame holds a complete row of the
\* instrument: the dates of the instrument's reduced rows.
DaysOf(r, isin) ==
    {d \in Days : CleanGroupRows(r, isin, strftime(d)) # <<>>}

\* The days of the instrument's reduced rows before day d, and the last of them.
DaysBefore(r, isin, d) == {e \in DaysOf(r, isin) : e < d}

PrevDay(r, isin, d) ==
    CHOOSE e \in DaysBefore(r, isin, d) : \A x \in DaysBefore(r, isin, d) : x <= e

\* The opening price of the instrument's reduced row of day d.
OpeningOf(r, isin, d) ==
    Head(EarliestRows(CleanGroupRows(r, isin, strftime(d)))).StartPrice

\* v is n / d (d > 0) in hundredths, rounded to the nearest one.
IsRounded(v, n, d) ==
    /\ 2 * (v * d - n) <= d
    /\ 2 * (n - v * d) <= d

SourceDatesAfter(body, n) ==
    LET c == CHOOSE j \in DOMAIN Head(body) : Head(body)[j] = META_SOURCE_DATE_COL
    IN  [i \in 1 .. (Len(body) - n) |-> body[n + i][c]]

\* C14: the write of the meta file that ends a run adds, after the lines
\* that were there, one row for each date of the run's date list from the
\* cutoff through today, in ascending order, and none for the first date of
\* the list, the day before the cutoff; after a run that found no meta file
\* the recorded days are exactly the requested start date through today.
C14_AppendsFromCutoff ==
    [][\A r \in Jobs :
         (job[r].pc = "meta_read" /\ job'[r].pc = "done") =>
            LET old == LedgerLines
                new == LedgerLines'
                appended == SourceDatesAfter(new, Len(old))
                L == job[r].extract_date_list
            IN  /\ Len(new) >= Len(old)
                /\ L = <<>> => appended = <<>>
                /\ L # <<>> =>
                      /\ L[1] = strftime(strptime(job[r].extract_date) - 1)
                      /\ L[1] \notin Range(appended)
                      /\ appended = DatesFromTo(strptime(job[r].extract_date), job[r].today)
                      /\ \A i \in DOMAIN L : i > 1 => L[i] \in Range(appended)
                /\ (~meta.exists /\ appended # <<>>) =>
                      LedgerDays' = strptime(arg_date) .. job[r].today
      ]_vars

\* C14 witness: a run that found no meta file and extracted three or more
\* days has ended; the meta file holds the days from the requested start
\* date through today and not the first day of the date list.
C14_Witness ==
    \E r \in Jobs :
        /\ job[r].pc = "done"
        /\ Len(job[r].extract_date_list) >= 3
        /\ meta.exists
        /\ Len(meta.body) = Len(job[r].extract_date_list)
        /\ LedgerDays = strptime(arg_date) .. job[r].today
        /\ strptime(job[r].extract_date_list[1]) \notin LedgerDays

\* C15: every row of a run's report has a percent change computed from an
\* earlier row of its instrument: the instrument's first row, which has
\* none, is dated before the cutoff and is not in the report.
C15_FirstRowNeverReported ==
    \A r \in Jobs :
        job[r].pc = "transformed" =>
            \A i \in DOMAIN job[r].df :
                /\ DaysBefore(r, job[r].df[i].ISIN, strptime(job[r].df[i].Date)) # {}
                /\ job[r].df[i].change_prev_closing.k # "nan"

(* ------------------------------------------------------------------ *)
(* Relations between reconciliations                                   *)
(* ------------------------------------------------------------------ *)

\* The meta file that records each day of S once, in ascending order, all
\* processed at the same time.
LedgerOfDays(S) ==
    LET ds == SelectSeq([i \in 1 .. (MaxDay + 1) |-> i - 1], LAMBDA d : d \in S)
    IN  S3Object(<< <<META_SOURCE_DATE_COL, META_PROCESS_COL>> >> \o
                 [i \in DOMAIN ds |-> <<strftime(ds[i]), strftime_ts(0, 0)>>])

\* The stored meta file with the rows for the dates of list L appended once
\* more, stamped with the current time.
AppendedAgain(L) ==
    S3Object(to_csv(concat(read_csv(meta.body), df_new(L, strftime_ts(today, clock)))))

\* C16: the result of a reconciliation depends only on the set of calendar
\* days in the source_date column of the meta file: it is the result for the
\* meta file that records each of those days once, in ascending order, and
\* it is the result for the stored meta file with the date list of a
\* finished run appended a second time.
C16_OnlyDistinctDatesCount ==
    \A r \in Jobs :
        (Reconciled(r) /\ meta.exists /\ META_SOURCE_DATE_COL \in Range(MetaHeader)) =>
            /\ LET res == return_date_list(LedgerOfDays(LedgerDays), arg_date, job[r].today)
               IN  /\ res.err = "none"
                   /\ res.min_date = job[r].extract_date
                   /\ res.dates = job[r].extract_date_list
            /\ \A q \in Jobs :
                  (job[q].pc = "done" /\ job[q].meta_update_list # <<>>) =>
                      LET res == return_date_list(AppendedAgain(job[q].meta_update_list),
                                                  arg_date, job[r].today)
                      IN  /\ res.err = "none"
                          /\ res.min_date = job[r].extract_date
                          /\ res.dates = job[r].extract_date_list

\* C16 witness: the run after a run that appended dates reconciles, a day
\* later, against a meta file that holds a day of the requested range in two
\* rows with different process timestamps and is not in ascending order,
\* and finds dates to extract.
C16_Witness ==
    /\ Reconciled(2) /\ meta.exists
    /\ job[1].pc = "done" /\ job[1].meta_update_list # <<>>
    /\ job[2].extract_date_list # <<>>
    /\ \E i, j \in 2 .. Len(meta.body) :
          /\ i < j
          /\ SourceDatesAfter(meta.body, 1)[i - 1] = SourceDatesAfter(meta.body, 1)[j - 1]
          /\ meta.body[i] # meta.body[j]
          /\ strptime(SourceDatesAfter(meta.body, 1)[i - 1]) >= strptime(arg_date)
    /\ \E i \in 2 .. (Len(meta.body) - 1) :
          strptime(SourceDatesAfter(meta.body, 1)[i - 1]) > strptime(SourceDatesAfter(meta.body, 1)[i])

\* The position of a job in etl_report1, as a number: the steps of a run in
\* the order of the code.
StepNo(pc) ==
    CASE pc = "idle" -> 0
      [] pc = "constructed" -> 1
      [] pc = "extracted" -> 2
      [] pc = "transformed" -> 3
      [] pc = "report_written" -> 4
      [] pc = "meta_read" -> 5
      [] pc = "done" -> 6
      [] OTHER -> 7

\* C17: a run takes its steps in the order reconciliation, extraction,
\* transformation, report write, meta file update. The meta file changes
\* only in the last step of a run whose report write has returned without
\* an error (the report put under the run's key, or an empty report, which
\* is not written), and a run stopped by WrongFormatException at the report
\* write has left the meta file as it was.
C17_StepsInOrder ==
    [][/\ \A r \in Jobs :
            job'[r] # job[r] =>
               /\ job'[r].pc = "failed" \/ StepNo(job'[r].pc) = StepNo(job[r].pc) + 1
               /\ (job'[r].pc = "failed" /\ job'[r].err = "WrongFormatException") =>
                     /\ job[r].pc = "transformed"
                     /\ job[r].df # <<>>
                     /\ tgt_format \notin {CSV, PARQUET}
                     /\ meta' = meta
                     /\ \A w \in puts' : w[1] # r
       /\ (meta' # meta \/ puts' # puts) =>
            \E r \in Jobs :
               \/ job[r].pc = "transformed" /\ job'[r].pc = "report_written" /\ meta' = meta
               \/ /\ job[r].pc = "meta_read" /\ job'[r].pc = "done"
                  /\ job[r].df = <<>> \/ <<r, job[r].target_key>> \in puts
                  /\ job[r].df # <<>> => tgt_format \in {CSV, PARQUET}
      ]_vars

\* C17 witness: a run with a report to write and dates to record has
\* stopped at the report write with WrongFormatException; it has put
\* nothing and the meta file holds none of its dates.
C17_Witness ==
    \E r \in Jobs :
        /\ job[r].pc = "failed" /\ job[r].err = "WrongFormatException"
        /\ job[r].df # <<>>
        /\ job[r].meta_update_list # <<>>
        /\ \A w \in puts : w[1] # r
        /\ meta.exists
        /\ \A d \in Range(job[r].meta_update_list) : strptime(d) \notin LedgerDays

(* ------------------------------------------------------------------ *)
(* Two runs on the same meta file                                      *)
(* ------------------------------------------------------------------ *)

\* The lines of the stored meta file that a run appended for the date: the
\* rows found before the first job were all processed at strftime_ts(0, 0).
RunRows(date) ==
    {i \in 2 .. Len(meta.body) :
        \E j, k \in DOMAIN MetaHeader :
            /\ MetaHeader[j] = META_SOURCE_DATE_COL /\ meta.body[i][j] = date
            /\ MetaHeader[k] = META_PROCESS_COL /\ meta.body[i][k] # strftime_ts(0, 0)}

\* Both runs have ended after recording dates: each reconciled before the
\* other wrote, or its list would have been empty.
BothWrote ==
    \A r \in Jobs : job[r].pc = "done" /\ job[r].meta_update_list # <<>>

\* C18: nothing guards the meta file against a second run. The write that
\* ends update_meta_file is never refused: it stores the frame the run built
\* from its own earlier read, whatever the meta file holds by then. When two
\* runs have both reconciled against the same meta file and both ended, they
\* had the same date list and both put the meta file, which is the frame of
\* the last writer: it holds each date twice (the second run read after the
\* first wrote) or once, the rows of the first writer replaced by those of
\* the second (both read before either wrote).
C18_NoConcurrencyControl ==
    [][/\ \A r \in Jobs :
            (job[r].pc = "meta_read" /\ job'[r] # job[r]) =>
               /\ job'[r].pc = "done"
               /\ ~IsEmpty(job[r].df_all) =>
                     /\ meta' = S3Object(to_csv(job[r].df_all))
                     /\ <<r, <<"meta">>>> \in puts'
       /\ BothWrote' =>
            /\ job'[1].extract_date_list = job'[2].extract_date_list
            /\ \A r \in Jobs : <<r, <<"meta">>>> \in puts'
            /\ \E w \in Jobs : \E q \in Jobs \ {w} :
                  /\ meta'.body = to_csv(job'[w].df_all)
                  /\ \/ /\ Len(job'[w].df_all.rows) =
                              Len(job'[q].df_all.rows) + Len(job'[w].meta_update_list)
                        /\ \A d \in Range(job'[w].meta_update_list) :
                              Cardinality(RunRows(d)') = 2
                     \/ /\ Len(job'[w].df_all.rows) = Len(job'[q].df_all.rows)
                        /\ \A d \in Range(job'[w].meta_update_list) :
                              Cardinality(RunRows(d)') = 1
      ]_vars

\* C18 witness: two runs reconciled against the same meta file, got the same
\* non-empty date list and both wrote; the meta file holds every date of
\* the list twice, stamped by the two runs, where one run after the other
\* leaves it once.
C18_Witness ==
    /\ BothWrote
    /\ job[1].extract_date_list = job[2].extract_date_list
    /\ {<<1, <<"meta">>>>, <<2, <<"meta">>>>} \subseteq puts
    /\ \A d \in Range(job[1].meta_update_list) : Cardinality(RunRows(d)) = 2
    /\ \E i, j \in 2 .. Len(meta.body) :
          /\ SourceDatesAfter(meta.body, 1)[i - 1] = SourceDatesAfter(meta.body, 1)[j - 1]
          /\ meta.body[i] # meta.body[j]
          /\ i \in RunRows(SourceDatesAfter(meta.body, 1)[i - 1])
          /\ j \in RunRows(SourceDatesAfter(meta.body, 1)[j - 1])

(* ------------------------------------------------------------------ *)
(* Dates without data                                                  *)
(* ------------------------------------------------------------------ *)

\* Job r extracted no row dated d.
NoData(r, d) == \A i \in DOMAIN job[r].raw : job[r].raw[i].Date # d

\* What a run does with dates for which it found no data: an empty
\* extraction is no error and puts no report; the run that ends has every
\* date of its list from the cutoff on, today included, in the meta file.
MarkedWithoutData ==
    \A r \in Jobs :
        /\ job[r].raw = <<>> =>
              /\ job[r].pc = "failed" => job[r].err \in {"KeyError", "WrongMetaFileException"}
              /\ \A w \in puts : w[1] = r => w[2] = <<"meta">>
        /\ (job[r].pc = "done" /\ job[r].meta_update_list # <<>>) =>
              /\ meta.exists
              /\ strftime(job[r].today) \in Range(job[r].meta_update_list)
              /\ \A d \in Range(job[r].extract_date_list) :
                    strptime(d) >= strptime(job[r].extract_date) =>
                        /\ d \in Range(job[r].meta_update_list)
                        /\ strptime(d) \in LedgerDays

\* C19 (as amended): a run records every date of its list from the cutoff
\* on, today included, whether or not it found data for it, and a run whose
\* extraction is empty puts no report and still records them. In a later
\* reconciliation a recorded day is not missing; it is processed again only
\* if an earlier day is missing, and it is extracted again only if a day up
\* to the day after it is missing (as the day before the cutoff when the
\* next day is the earliest missing one).
C19_ProcessedWithoutData ==
    /\ MarkedWithoutData
    /\ \A r \in Jobs :
          (Reconciled(r) /\ meta.exists) =>
              \A d \in LedgerDays :
                  /\ d \notin MissingDays(r)
                  /\ strftime(d) \in Range(job[r].meta_update_list) =>
                        \E m \in MissingDays(r) : m < d
                  /\ strftime(d) \in Range(job[r].extract_date_list) =>
                        \E m \in MissingDays(r) : m <= d + 1

\* C19 as stated: the same, with a recorded day extracted again only if an
\* earlier day is missing.
C19_ReextractedOnlyAfterGap ==
    /\ MarkedWithoutData
    /\ \A r \in Jobs :
          (Reconciled(r) /\ meta.exists) =>
              \A d \in LedgerDays :
                  /\ d \notin MissingDays(r)
                  /\ strftime(d) \in Range(job[r].extract_date_list) =>
                        \E m \in MissingDays(r) : m < d

\* C19 witness: a run that extracted nothing has ended without a report and
\* recorded two or more days; the run of the next day extracts the last of
\* them again, as the day before its cutoff, and does not record it again.
C19_Witness ==
    /\ job[1].pc = "done" /\ job[1].raw = <<>>
    /\ Len(job[1].meta_update_list) >= 2
    /\ \A w \in puts : w[2] = <<"meta">>
    /\ \A d \in Range(job[1].meta_update_list) : strptime(d) \in LedgerDays
    /\ Reconciled(2) /\ job[2].today = job[1].today + 1
    /\ strftime(job[1].today) \in Range(job[2].extract_date_list)
    /\ strftime(job[1].today) \notin Range(job[2].meta_update_list)

(* ------------------------------------------------------------------ *)
(* Shape of a reconciliation result                                    *)
(* ------------------------------------------------------------------ *)

\* Job r holds the result of return_date_list.
HasResult(r) == job[r].pc # "idle" /\ job[r].err # "KeyError"

\* C20: the date list of every reconciliation result, with or without a
\* meta file and whatever the meta file records, is empty or holds the
\* consecutive calendar dates from the day before the cutoff through today,
\* ascending and each once; the cutoff is never before the requested start
\* date (which is at most the day after today).
C20_ResultShape ==
    \A r \in Jobs :
        HasResult(r) =>
            LET L == job[r].extract_date_list
                cutoff == job[r].extract_date
            IN  /\ strptime(arg_date) <= job[r].today + 1
                /\ cutoff = SentinelDate \/ strptime(cutoff) >= strptime(arg_date)
                /\ L # <<>> =>
                      /\ cutoff # SentinelDate
                      /\ L[1] = strftime(strptime(cutoff) - 1)
                      /\ L[Len(L)] = strftime(job[r].today)
                      /\ \A i \in 1 .. (Len(L) - 1) : strptime(L[i + 1]) = strptime(L[i]) + 1
                      /\ \A i, j \in DOMAIN L : L[i] = L[j] => i = j

\* C20 witness: a reconciliation against a meta file that records a day
\* after its earliest gap: the cutoff is after the requested start date and
\* the date list runs over the recorded day to today.
C20_Witness ==
    \E r \in Jobs :
        /\ Reconciled(r) /\ meta.exists
        /\ strptime(job[r].extract_date) > strptime(arg_date)
        /\ Len(job[r].extract_date_list) >= 3
        /\ \E d \in LedgerDays :
              /\ d > strptime(job[r].extract_date)
              /\ strftime(d) \in Range(job[r].extract_date_list)

====
